---- MODULE Spec2Model ----
(***************************************************************************)
(* Model of the investment controller of the fractional investment API     *)
(* (api/src/controllers/investment.controller.js) and of the routes that   *)
(* reach it.  Every request handler is an async function: it runs to its   *)
(* next `await` atomically, and between two awaits any other request may   *)
(* run.  One action of the model is one such segment; one datastore        *)
(* statement (a supabase select / insert / update) is atomic.              *)
(*                                                                         *)
(* supabase.rpc('begin_transaction' | 'commit_transaction' |               *)
(* 'rollback_transaction') are three independent HTTP calls of the         *)
(* supabase-js REST client (config/supabase.js); every statement of the    *)
(* handlers is its own autocommitted request, so the three calls neither   *)
(* isolate nor undo anything.  The model keeps their position in the       *)
(* handler's tx flag and gives them no effect on the tables.               *)
(*                                                                         *)
(* processPayment and processRefund stand for the payment gateway: the     *)
(* handlers branch on their result, so the result is either value.  The    *)
(* datastore statements themselves succeed.                                *)
(*                                                                         *)
(* In cancelInvestment the branches `payment_status === 'succeeded'` and   *)
(* `investment.status === 'completed'` test the row that has just passed   *)
(* the `status !== 'pending'` check; they are kept inside the action of    *)
(* the statement they follow.                                              *)
(*                                                                         *)
(* updateProperty and deleteProperty (property.controller.js) are the      *)
(* admin's requests on the properties table.  The routers and              *)
(* authenticateJWT are modelled up to the entry of a route's handler.      *)
(*                                                                         *)
(* requestWithdrawal reads two things no handler writes: the property's    *)
(* withdrawal_policy and the table bank_accounts; both are fixed data.     *)
(*                                                                         *)
(* login, refreshToken, logout, forgotPassword and resetPassword           *)
(* (auth.controller.js) work on users, refresh_tokens and                  *)
(* password_reset_tokens.  A JWT is the record of what jwt.sign receives:  *)
(* secret, payload and issue time; the clock advances in units of a token  *)
(* lifetime.  register and the access tokens are left out.                 *)
(***************************************************************************)
EXTENDS Integers, Sequences, FiniteSets, TLC

VARIABLES
    properties,          \* table properties: id -> row
    investments,         \* table investments: sequence of rows, id = index
    transactions,        \* table transactions: sequence of rows (createTransaction)
    investment_history,  \* table investment_history: sequence of rows
    failed_investments,  \* table failed_investments: sequence of rows
    holdings,            \* table holdings: set of rows, one per (user, listing)
    withdrawals,         \* table withdrawals: sequence of rows, id = index
    users,               \* table users: id -> row
    refresh_tokens,      \* table refresh_tokens: sequence of rows
    password_reset_tokens, \* table password_reset_tokens: user_id -> row
    issued,              \* the tokens jwt.sign has produced so far
    now,                 \* Date.now(), in units of a token lifetime
    payment_calls,       \* payment gateway: order id -> number of processPayment calls
    pc,                  \* per request slot: the await the handler is suspended at
    loc,                 \* per request slot: the handler's local variables
    out,                 \* the response sent by the last step, NoRes if it sent none
    requests             \* number of requests received so far

vars == <<properties, investments, transactions, investment_history,
          failed_investments, holdings, withdrawals, users, refresh_tokens,
          password_reset_tokens, issued, now, payment_calls, pc, loc, out, requests>>

\* the tables and the clock of the authentication controller
auth == <<users, refresh_tokens, password_reset_tokens, issued, now>>

db == <<properties, investments, transactions, investment_history, failed_investments,
        holdings, withdrawals>>

-----------------------------------------------------------------------------
(* Bounds of the model *)

NumProcs == 2
MaxRequests == 3
MaxShares == 2
MaxTime == 2

-----------------------------------------------------------------------------
(* Data *)

Procs == 1..NumProcs

Users == {"u1", "admin"}

\* users.role, read by isAdmin from req.user
Role(u) == IF u = "admin" THEN "admin" ELSE "investor"

PropertyIds == {"p1", "p2"}

\* a well-formed UUID that names no row of properties
UnknownProperty == "p9"

\* a propertyId that is not a UUID
MalformedProperty == "bad"

TotalShares == 2
PricePerShare == 2

NoRow == [none |-> TRUE]

NoLoc == [op |-> "none"]

NoRes == [code |-> 0]

\* res.status(code).json({message, data}) of slot p, answering the request req
Response(p, req, code, message, data) ==
    [code |-> code, message |-> message, data |-> data, proc |-> p, req |-> req]

\* createProperty: available_shares starts equal to total_shares.  The column
\* withdrawal_policy is read by requestWithdrawal and set by no handler by name;
\* the active listing allows withdrawals.
InitProperties ==
    [id \in PropertyIds |->
        [status            |-> IF id = "p1" THEN "active" ELSE "draft",
         total_shares      |-> TotalShares,
         available_shares  |-> TotalShares,
         price_per_share   |-> PricePerShare,
         withdrawal_policy |-> IF id = "p1" THEN "allowed" ELSE "none"]]

\* table bank_accounts, which no handler writes: id -> row
BankAccounts == [id \in {"b1"} |-> [user_id |-> "u1"]]

\* the passwords a request may carry; every account starts with the first
Passwords == {"pw0", "pw1"}

\* bcrypt.hash(password, salt), as bcrypt.compare sees it
Hash(password) == <<"bcrypt", password>>

\* bcrypt.compare(password, hash)
Compare(password, hash) == hash = Hash(password)

\* register: one row of users per account, status 'active'
InitUsers == [u \in Users |-> [status |-> "active", password |-> Hash("pw0")]]

Init ==
    /\ properties = InitProperties
    /\ investments = <<>>
    /\ transactions = <<>>
    /\ investment_history = <<>>
    /\ failed_investments = <<>>
    /\ holdings = {}
    /\ withdrawals = <<>>
    /\ users = InitUsers
    /\ refresh_tokens = <<>>
    /\ password_reset_tokens = <<>>
    /\ issued = {}
    /\ now = 0
    /\ payment_calls = <<>>
    /\ pc = [p \in Procs |-> "idle"]
    /\ loc = [p \in Procs |-> NoLoc]
    /\ out = NoRes
    /\ requests = 0

-----------------------------------------------------------------------------
(* Helpers *)

InvestmentIds == 1..Len(investments)

\* the record l with field f set to v
With(l, f, v) == [x \in DOMAIN l \cup {f} |-> IF x = f THEN v ELSE l[x]]

\* the handler of slot p sends its response and returns; req is its locals then
Respond(p, req, code, message, data) ==
    /\ out' = Response(p, req, code, message, data)
    /\ pc' = [pc EXCEPT ![p] = "idle"]
    /\ loc' = [loc EXCEPT ![p] = NoLoc]

\* the handler of slot p suspends at its next await with locals l
Goto(p, label, l) ==
    /\ pc' = [pc EXCEPT ![p] = label]
    /\ loc' = [loc EXCEPT ![p] = l]
    /\ out' = NoRes

\* a slot is free for the next request
Free(p) == pc[p] = "idle" /\ requests < MaxRequests

\* variant: body('shares').isInt({ min: 0 })
ValidCreateInvestment_ZeroShares(propertyId, shares, paymentMethodId) ==
    /\ propertyId # MalformedProperty
    /\ shares >= 0
    /\ paymentMethodId # "missing"

\* validateCreateInvestment, read by validationResult(req)
ValidCreateInvestment(propertyId, shares, paymentMethodId) ==
    /\ propertyId # MalformedProperty
    /\ shares >= 1
    /\ paymentMethodId # "missing"

\* variant: the record of a reference_id is replaced when there is one (upsert)
createTransaction_Upsert(userId, type, amount, status, referenceId) ==
    LET record == [user_id |-> userId, type |-> type, amount |-> amount,
                   status |-> status, reference_id |-> referenceId]
        old == {k \in 1..Len(transactions) : transactions[k].reference_id = referenceId} IN
    transactions' = IF old = {} THEN Append(transactions, record)
                    ELSE [k \in 1..Len(transactions) |->
                            IF k \in old THEN record ELSE transactions[k]]

\* async function createTransaction: one insert into transactions
createTransaction(userId, type, amount, status, referenceId) ==
    transactions' = Append(transactions,
        [user_id |-> userId, type |-> type, amount |-> amount,
         status |-> status, reference_id |-> referenceId])

-----------------------------------------------------------------------------
(* createInvestment *)

\* POST /api/investments: validation, then rpc('begin_transaction')
CreateInvestment_Begin(p) ==
    /\ Free(p)
    /\ requests' = requests + 1
    /\ \E u \in Users, propertyId \in PropertyIds \cup {UnknownProperty, MalformedProperty},
          shares \in 0..MaxShares, paymentMethodId \in {"pm", "missing"} :
          LET req == [op |-> "createInvestment", tx |-> FALSE, user |-> u,
                      propertyId |-> propertyId, shares |-> shares,
                      paymentMethodId |-> paymentMethodId] IN
          IF ~ValidCreateInvestment(propertyId, shares, paymentMethodId)
          THEN Respond(p, req, 400, "Validation failed", NoRow)
          ELSE Goto(p, "ci_fetch", With(req, "tx", TRUE))
    /\ UNCHANGED <<db, payment_calls, auth>>

\* variant: only sold and archived properties are refused
NotActive_DraftAllowed(property) == property.status \in {"sold", "archived"}

\* step 1: if (property.status !== 'active')
NotActive(property) == property.status # "active"

\* variant: the request is compared with the listing's size, not with what is left
NotEnoughShares_AgainstTotal(shares, property) == shares > property.total_shares

\* step 2: if (shares > property.available_shares)
NotEnoughShares(shares, property) == shares > property.available_shares

\* steps 1-3: select the property, check status and available shares
CreateInvestment_Fetch(p) ==
    /\ pc[p] = "ci_fetch"
    /\ LET l == loc[p] IN
       IF l.propertyId \notin DOMAIN properties
       THEN \* throw new Error('Property not found')
            Goto(p, "ci_rollback", With(l, "error", "Property not found"))
       ELSE LET property == properties[l.propertyId] IN
            IF NotActive(property)
            THEN Respond(p, l, 400, "Property is not available for investment", NoRow)
            ELSE IF NotEnoughShares(l.shares, property)
            THEN Respond(p, With(l, "property", property), 400,
                         "Not enough shares available", NoRow)
            ELSE Goto(p, "ci_insert",
                      With(With(l, "property", property),
                           "amount", l.shares * property.price_per_share))
    /\ UNCHANGED <<db, payment_calls, auth, requests>>

\* step 4: insert the investment with status 'pending'
CreateInvestment_Insert(p) ==
    /\ pc[p] = "ci_insert"
    /\ LET l == loc[p] IN
       /\ investments' = Append(investments,
              [user_id |-> l.user, property_id |-> l.propertyId,
               shares |-> l.shares, amount |-> l.amount,
               status |-> "pending", payment_status |-> "none"])
       /\ Goto(p, "ci_pay", With(l, "investmentId", Len(investments) + 1))
    /\ UNCHANGED <<properties, transactions, investment_history, failed_investments,
                   holdings, withdrawals, payment_calls, auth, requests>>

\* the gateway's count of processPayment calls for an order
PaymentCalls(id) == IF id \in DOMAIN payment_calls THEN payment_calls[id] ELSE 0

\* async function processPayment, called for the order investmentId
processPayment(investmentId) ==
    payment_calls' = [i \in DOMAIN payment_calls \cup {investmentId} |->
                         IF i = investmentId THEN PaymentCalls(i) + 1
                         ELSE payment_calls[i]]

\* variant: a failed payment is attempted again
CreateInvestment_Pay_Retry(p) ==
    /\ pc[p] = "ci_pay"
    /\ processPayment(loc[p].investmentId)
    /\ \E paymentSuccess \in BOOLEAN :
          IF paymentSuccess
          THEN Goto(p, "ci_complete", loc[p])
          ELSE Goto(p, "ci_pay", loc[p])
    /\ UNCHANGED <<db, auth, requests>>

\* step 5: await processPayment(...); the gateway answers success or failure
CreateInvestment_Pay(p) ==
    /\ pc[p] = "ci_pay"
    /\ processPayment(loc[p].investmentId)
    /\ \E paymentSuccess \in BOOLEAN :
          IF paymentSuccess
          THEN Goto(p, "ci_complete", loc[p])
          ELSE \* throw new Error('Payment processing failed')
               Goto(p, "ci_rollback", With(loc[p], "error", "Payment processing failed"))
    /\ UNCHANGED <<db, auth, requests>>

\* step 6: update investments set status = 'completed' where id = investmentId
CreateInvestment_Complete(p) ==
    /\ pc[p] = "ci_complete"
    /\ LET id == loc[p].investmentId
           updatedInvestment == [investments[id] EXCEPT !.status = "completed",
                                                        !.payment_status = "succeeded"] IN
       /\ investments' = [investments EXCEPT ![id] = updatedInvestment]
       /\ Goto(p, "ci_shares", With(loc[p], "updatedInvestment", updatedInvestment))
    /\ UNCHANGED <<properties, transactions, investment_history, failed_investments,
                   holdings, withdrawals, payment_calls, auth, requests>>

\* variant: the decrement starts from total_shares
CreateInvestment_NewAvailable_FromTotal(property, shares) ==
    property.total_shares - shares

\* the value step 7 stores in properties.available_shares
CreateInvestment_NewAvailable(property, shares) ==
    property.available_shares - shares

\* step 7: update properties set available_shares = property.available_shares - shares
CreateInvestment_Shares(p) ==
    /\ pc[p] = "ci_shares"
    /\ LET l == loc[p] IN
       properties' = [properties EXCEPT ![l.propertyId].available_shares =
                         CreateInvestment_NewAvailable(l.property, l.shares)]
    /\ Goto(p, "ci_transaction", loc[p])
    /\ UNCHANGED <<investments, transactions, investment_history, failed_investments,
                   holdings, withdrawals, payment_calls, auth, requests>>

\* step 8: createTransaction({type: 'investment', amount: -amount, ...})
CreateInvestment_Transaction(p) ==
    /\ pc[p] = "ci_transaction"
    /\ LET l == loc[p] IN
       createTransaction(l.user, "investment", 0 - l.amount, "completed", l.investmentId)
    /\ Goto(p, "ci_commit", loc[p])
    /\ UNCHANGED <<properties, investments, investment_history, failed_investments,
                   holdings, withdrawals, payment_calls, auth, requests>>

\* steps 9-10: rpc('commit_transaction'), then the 201 response
CreateInvestment_Commit(p) ==
    /\ pc[p] = "ci_commit"
    /\ Respond(p, With(loc[p], "tx", FALSE), 201, "success", loc[p].updatedInvestment)
    /\ UNCHANGED <<db, payment_calls, auth, requests>>

\* inner catch: rpc('rollback_transaction'), then rethrow
CreateInvestment_Rollback(p) ==
    /\ pc[p] = "ci_rollback"
    /\ Goto(p, "ci_failed", With(loc[p], "tx", FALSE))
    /\ UNCHANGED <<db, payment_calls, auth, requests>>

\* outer catch: insert into failed_investments, then the 500 response
CreateInvestment_Failed(p) ==
    /\ pc[p] = "ci_failed"
    /\ LET l == loc[p] IN
       /\ failed_investments' = Append(failed_investments,
              [user_id |-> l.user, property_id |-> l.propertyId,
               shares |-> l.shares, error |-> l.error])
       /\ Respond(p, l, 500, "Failed to process investment", NoRow)
    /\ UNCHANGED <<properties, investments, transactions, investment_history,
                   holdings, withdrawals, payment_calls, auth, requests>>

createInvestment(p) ==
    \/ CreateInvestment_Begin(p)
    \/ CreateInvestment_Fetch(p)
    \/ CreateInvestment_Insert(p)
    \/ CreateInvestment_Pay(p)
    \/ CreateInvestment_Complete(p)
    \/ CreateInvestment_Shares(p)
    \/ CreateInvestment_Transaction(p)
    \/ CreateInvestment_Commit(p)
    \/ CreateInvestment_Rollback(p)
    \/ CreateInvestment_Failed(p)

-----------------------------------------------------------------------------
(* cancelInvestment *)

\* POST /api/investments/:id/cancel: rpc('begin_transaction')
CancelInvestment_Begin(p) ==
    /\ Free(p)
    /\ requests' = requests + 1
    /\ \E u \in Users, id \in 1..(Len(investments) + 1) :
          Goto(p, "cn_fetch", [op |-> "cancelInvestment", tx |-> TRUE, user |-> u, id |-> id])
    /\ UNCHANGED <<db, payment_calls, auth>>

\* variant: only completed investments are refused
Cancellable_NotCompleted(investment) == investment.status # "completed"

\* if (investment.status !== 'pending') reject
Cancellable(investment) == investment.status = "pending"

\* variant: the order is selected by id alone
InvestmentOfUser_AnyOwner(id, userId) == id \in InvestmentIds

\* .from('investments').select('*').eq('id', id).eq('user_id', userId).single()
\* finds a row
InvestmentOfUser(id, userId) ==
    /\ id \in InvestmentIds
    /\ investments[id].user_id = userId

\* select * from investments where id = :id and user_id = req.user.id, then the
\* 'pending' check
CancelInvestment_Fetch(p) ==
    /\ pc[p] = "cn_fetch"
    /\ LET l == loc[p] IN
       IF ~InvestmentOfUser(l.id, l.user)
       THEN \* throw new Error('Investment not found')
            Goto(p, "cn_rollback", l)
       ELSE LET investment == investments[l.id] IN
            IF ~Cancellable(investment)
            THEN Respond(p, With(l, "investment", investment), 400,
                         "Only pending investments can be cancelled", NoRow)
            ELSE Goto(p, "cn_update", With(l, "investment", investment))
    /\ UNCHANGED <<db, payment_calls, auth, requests>>

\* update investments set status = 'cancelled' where id = :id; when the row read
\* had payment_status 'succeeded': processRefund, then payment_status = 'refunded'
CancelInvestment_Update(p) ==
    /\ pc[p] = "cn_update"
    /\ LET l == loc[p]
           updatedInvestment == [investments[l.id] EXCEPT !.status = "cancelled"] IN
       IF l.investment.payment_status = "succeeded"
       THEN \E refundSuccess \in BOOLEAN :
               IF refundSuccess
               THEN /\ investments' = [investments EXCEPT ![l.id] =
                           [updatedInvestment EXCEPT !.payment_status = "refunded"]]
                    /\ Goto(p, "cn_transaction",
                            With(With(l, "updatedInvestment", updatedInvestment),
                                 "refunded", TRUE))
               ELSE \* throw new Error('Failed to process refund')
                    /\ investments' = [investments EXCEPT ![l.id] = updatedInvestment]
                    /\ Goto(p, "cn_rollback", l)
       ELSE /\ investments' = [investments EXCEPT ![l.id] = updatedInvestment]
            /\ Goto(p, "cn_transaction", With(l, "updatedInvestment", updatedInvestment))
    /\ UNCHANGED <<properties, transactions, investment_history, failed_investments,
                   holdings, withdrawals, payment_calls, auth, requests>>

\* createTransaction({type: 'refund', amount: investment.amount, ...}); when the row
\* read had status 'completed': available_shares = available_shares + investment.shares
CancelInvestment_Transaction(p) ==
    /\ pc[p] = "cn_transaction"
    /\ LET l == loc[p] IN
       /\ createTransaction(l.user, "refund", l.investment.amount, "completed", l.id)
       /\ IF l.investment.status = "completed"
             /\ l.investment.property_id \in DOMAIN properties
          THEN properties' =
                  [properties EXCEPT ![l.investment.property_id].available_shares =
                      @ + l.investment.shares]
          ELSE UNCHANGED properties
    /\ Goto(p, "cn_commit", loc[p])
    /\ UNCHANGED <<investments, investment_history, failed_investments,
                   holdings, withdrawals, payment_calls, auth, requests>>

\* rpc('commit_transaction'), then the 200 response
CancelInvestment_Commit(p) ==
    /\ pc[p] = "cn_commit"
    /\ Respond(p, With(loc[p], "tx", FALSE), 200, "success", loc[p].updatedInvestment)
    /\ UNCHANGED <<db, payment_calls, auth, requests>>

\* inner catch: rpc('rollback_transaction'); outer catch: the 500 response
CancelInvestment_Rollback(p) ==
    /\ pc[p] = "cn_rollback"
    /\ Respond(p, With(loc[p], "tx", FALSE), 500, "Failed to cancel investment", NoRow)
    /\ UNCHANGED <<db, payment_calls, auth, requests>>

cancelInvestment(p) ==
    \/ CancelInvestment_Begin(p)
    \/ CancelInvestment_Fetch(p)
    \/ CancelInvestment_Update(p)
    \/ CancelInvestment_Transaction(p)
    \/ CancelInvestment_Commit(p)
    \/ CancelInvestment_Rollback(p)

-----------------------------------------------------------------------------
(* updateInvestmentStatus *)

\* the status values a request body may carry
RequestedStatuses == {"pending", "completed", "failed", "cancelled", "refunded"}

\* variant: a failed investment is final
validTransitions_NoRetry ==
    [pending   |-> {"completed", "failed", "cancelled"},
     completed |-> {"cancelled"},
     failed    |-> {},
     cancelled |-> {}]

\* const validTransitions
validTransitions ==
    [pending   |-> {"completed", "failed", "cancelled"},
     completed |-> {"cancelled"},
     failed    |-> {"pending"},
     cancelled |-> {}]

\* variant: a cancelled investment may be reopened
isValidStatusTransition_Reopen(currentStatus, newStatus) ==
    /\ currentStatus \in DOMAIN validTransitions
    /\ \/ newStatus \in validTransitions[currentStatus]
       \/ currentStatus = "cancelled" /\ newStatus = "pending"

\* validTransitions[currentStatus]?.includes(newStatus) || false
isValidStatusTransition(currentStatus, newStatus) ==
    /\ currentStatus \in DOMAIN validTransitions
    /\ newStatus \in validTransitions[currentStatus]

\* variant: every authenticated user passes
isAdmin_AnyUser(u) == u \in Users

\* middleware isAdmin
isAdmin(u) == Role(u) = "admin"

\* PUT /api/investments/:id/status: isAdmin, then the handler up to its first await.
\* The route's body('status') validator runs, but the handler never reads
\* validationResult(req), so every status value reaches it.
UpdateInvestmentStatus_Begin(p) ==
    /\ Free(p)
    /\ requests' = requests + 1
    /\ \E u \in Users, id \in 1..(Len(investments) + 1), status \in RequestedStatuses :
          LET req == [op |-> "updateInvestmentStatus", user |-> u, id |-> id,
                      status |-> status] IN
          IF ~isAdmin(u)
          THEN Respond(p, req, 403, "Admin access required", NoRow)
          ELSE Goto(p, "us_fetch", req)
    /\ UNCHANGED <<db, payment_calls, auth>>

\* select * from investments where id = :id, then isValidStatusTransition
UpdateInvestmentStatus_Fetch(p) ==
    /\ pc[p] = "us_fetch"
    /\ LET l == loc[p] IN
       IF l.id \notin InvestmentIds
       THEN Respond(p, l, 404, "Investment not found", NoRow)
       ELSE LET investment == investments[l.id] IN
            IF ~isValidStatusTransition(investment.status, l.status)
            THEN Respond(p, With(l, "investment", investment), 400,
                         "Invalid status transition", NoRow)
            ELSE Goto(p, "us_update", With(l, "investment", investment))
    /\ UNCHANGED <<db, payment_calls, auth, requests>>

\* update investments set status = :status where id = :id
UpdateInvestmentStatus_Update(p) ==
    /\ pc[p] = "us_update"
    /\ LET l == loc[p]
           updatedInvestment == [investments[l.id] EXCEPT !.status = l.status] IN
       /\ investments' = [investments EXCEPT ![l.id] = updatedInvestment]
       /\ Goto(p, "us_history", With(l, "updatedInvestment", updatedInvestment))
    /\ UNCHANGED <<properties, transactions, investment_history, failed_investments,
                   holdings, withdrawals, payment_calls, auth, requests>>

\* insert into investment_history; then, unless marking as completed, the 200 response
UpdateInvestmentStatus_History(p) ==
    /\ pc[p] = "us_history"
    /\ LET l == loc[p] IN
       /\ investment_history' = Append(investment_history,
              [investment_id |-> l.id, status |-> l.status, changed_by |-> l.user])
       /\ IF l.status = "completed" /\ l.investment.status # "completed"
          THEN Goto(p, "us_property", l)
          ELSE Respond(p, l, 200, "success", l.updatedInvestment)
    /\ UNCHANGED <<properties, investments, transactions, failed_investments,
                   holdings, withdrawals, payment_calls, auth, requests>>

\* select available_shares from properties where id = investment.property_id
UpdateInvestmentStatus_Property(p) ==
    /\ pc[p] = "us_property"
    /\ LET l == loc[p] IN
       IF l.investment.property_id \in DOMAIN properties
       THEN Goto(p, "us_shares",
                 With(l, "property", properties[l.investment.property_id]))
       ELSE Respond(p, l, 200, "success", l.updatedInvestment)
    /\ UNCHANGED <<db, payment_calls, auth, requests>>

\* the value updateInvestmentStatus stores in properties.available_shares
UpdateInvestmentStatus_NewAvailable(property, investment) ==
    property.available_shares - investment.shares

\* update properties set available_shares = property.available_shares - investment.shares
UpdateInvestmentStatus_Shares(p) ==
    /\ pc[p] = "us_shares"
    /\ LET l == loc[p] IN
       /\ properties' = [properties EXCEPT ![l.investment.property_id].available_shares =
                            UpdateInvestmentStatus_NewAvailable(l.property, l.investment)]
       /\ Respond(p, l, 200, "success", l.updatedInvestment)
    /\ UNCHANGED <<investments, transactions, investment_history, failed_investments,
                   holdings, withdrawals, payment_calls, auth, requests>>

updateInvestmentStatus(p) ==
    \/ UpdateInvestmentStatus_Begin(p)
    \/ UpdateInvestmentStatus_Fetch(p)
    \/ UpdateInvestmentStatus_Update(p)
    \/ UpdateInvestmentStatus_History(p)
    \/ UpdateInvestmentStatus_Property(p)
    \/ UpdateInvestmentStatus_Shares(p)

-----------------------------------------------------------------------------
(* updateProperty, deleteProperty (property.controller.js) *)

\* the values validateUpdateProperty accepts for body('status')
PropertyStatuses == {"draft", "active", "sold", "archived"}

\* request bodies of PUT /api/properties/:id, as column -> value; 'closed' is
\* not a status the validator accepts
UpdateBodies ==
    {[status |-> st] : st \in PropertyStatuses \cup {"closed"}}
        \cup {[available_shares |-> n] : n \in 0..MaxShares}
        \cup {[total_shares |-> n] : n \in 1..MaxShares}

\* validateUpdateProperty, read by validationResult(req): the listed fields are
\* checked when present, any other field passes
ValidUpdateProperty(body) ==
    "status" \in DOMAIN body => body.status \in PropertyStatuses

\* updateData: the body without the read-only fields id, created_at, created_by
UpdateData(body) ==
    [f \in DOMAIN body \ {"id", "created_at", "created_by"} |-> body[f]]

\* update properties set <updateData> where id = :id
UpdatedRow(row, updateData) ==
    [f \in DOMAIN row |-> IF f \in DOMAIN updateData THEN updateData[f] ELSE row[f]]

\* PUT /api/properties/:id: isAdmin, validation, one update statement, response
UpdateProperty(p) ==
    /\ Free(p)
    /\ requests' = requests + 1
    /\ \E u \in Users, id \in PropertyIds \cup {UnknownProperty}, body \in UpdateBodies :
          LET req == [op |-> "updateProperty", user |-> u, id |-> id, body |-> body] IN
          IF ~isAdmin(u)
          THEN /\ Respond(p, req, 403, "Admin access required", NoRow)
               /\ UNCHANGED properties
          ELSE IF ~ValidUpdateProperty(body)
          THEN /\ Respond(p, req, 400, "Validation failed", NoRow)
               /\ UNCHANGED properties
          ELSE IF id \notin DOMAIN properties
          THEN /\ Respond(p, req, 404, "Property not found", NoRow)
               /\ UNCHANGED properties
          ELSE LET row == UpdatedRow(properties[id], UpdateData(body)) IN
               /\ properties' = [properties EXCEPT ![id] = row]
               /\ Respond(p, With(req, "property", properties[id]), 200, "success", row)
    /\ UNCHANGED <<investments, transactions, investment_history, failed_investments,
                   holdings, withdrawals, payment_calls, auth>>

\* DELETE /api/properties/:id: isAdmin, then the handler up to its first await
DeleteProperty_Begin(p) ==
    /\ Free(p)
    /\ requests' = requests + 1
    /\ \E u \in Users, id \in PropertyIds \cup {UnknownProperty} :
          LET req == [op |-> "deleteProperty", user |-> u, id |-> id] IN
          IF ~isAdmin(u)
          THEN Respond(p, req, 403, "Admin access required", NoRow)
          ELSE Goto(p, "dp_count", req)
    /\ UNCHANGED <<db, payment_calls, auth>>

\* select count(*) from investments where property_id = :id
DeleteProperty_Count(p) ==
    /\ pc[p] = "dp_count"
    /\ LET l == loc[p]
           investmentCount ==
               Cardinality({i \in InvestmentIds : investments[i].property_id = l.id}) IN
       IF investmentCount > 0
       THEN Respond(p, l, 400, "Cannot delete property with existing investments", NoRow)
       ELSE Goto(p, "dp_delete", l)
    /\ UNCHANGED <<db, payment_calls, auth, requests>>

\* delete from properties where id = :id, the deletes of the related tables,
\* then the 204 response
DeleteProperty_Delete(p) ==
    /\ pc[p] = "dp_delete"
    /\ properties' = [id \in DOMAIN properties \ {loc[p].id} |-> properties[id]]
    /\ Respond(p, loc[p], 204, "", NoRow)
    /\ UNCHANGED <<investments, transactions, investment_history, failed_investments,
                   holdings, withdrawals, payment_calls, auth, requests>>

deleteProperty(p) ==
    \/ DeleteProperty_Begin(p)
    \/ DeleteProperty_Count(p)
    \/ DeleteProperty_Delete(p)

-----------------------------------------------------------------------------
(* the investment and portfolio routers, authenticateJWT *)

\* a user id carried by a well-signed token whose row is not in users
UnknownUser == "ghost"

\* the Authorization header of a request: absent, not a Bearer header, a Bearer
\* token that jwt.verify refuses, or a verified token carrying a userId
Headers ==
    {[kind |-> "absent"], [kind |-> "basic"], [kind |-> "bearer", verified |-> FALSE]}
        \cup {[kind |-> "bearer", verified |-> TRUE, userId |-> u] :
                  u \in Users \cup {UnknownUser}}

\* routes/investment.routes.js: the handlers and the routes that name isAdmin
InvestmentRoutes ==
    {[router |-> "investments", handler |-> h, admin |-> FALSE] :
        h \in {"createInvestment", "getInvestments", "getInvestmentById",
                "cancelInvestment", "requestWithdrawal"}}
    \cup {[router |-> "investments", handler |-> h, admin |-> TRUE] :
             h \in {"adminGetAllInvestments", "updateInvestmentStatus"}}

\* routes/portfolio.routes.js
PortfolioRoutes ==
    {[router |-> "portfolio", handler |-> h, admin |-> FALSE] :
        h \in {"getPortfolioSummary", "getPortfolioPerformance", "getInvestments",
                "getTransactions", "getDocuments", "getWatchlist", "addToWatchlist",
                "removeFromWatchlist"}}

\* the routers that call router.use(authenticateJWT); in the portfolio router the
\* call is commented out
UsesAuthenticateJWT(router) == router = "investments"

\* req.user when no middleware has set it
NoUser == "undefined"

\* a request reaches a router: authenticateJWT up to its user lookup, or, in a
\* router without it, the handler at once
Router_Receive(p) ==
    /\ Free(p)
    /\ requests' = requests + 1
    /\ \E route \in InvestmentRoutes \cup PortfolioRoutes, header \in Headers :
          LET req == [op |-> "route", route |-> route, header |-> header,
                      user |-> NoUser] IN
          IF ~UsesAuthenticateJWT(route.router)
          THEN Goto(p, "handler", req)
          ELSE IF header.kind # "bearer"
          THEN Respond(p, req, 401, "No token provided or invalid token format", NoRow)
          ELSE IF ~header.verified
          THEN Respond(p, req, 403, "Failed to authenticate token", NoRow)
          ELSE Goto(p, "au_user", req)
    /\ UNCHANGED <<db, payment_calls, auth>>

\* authenticateJWT: select * from users where id = decoded.userId; next();
\* then isAdmin on the routes that name it
AuthenticateJWT_User(p) ==
    /\ pc[p] = "au_user"
    /\ LET l == loc[p] IN
       IF l.header.userId \notin Users
       THEN Respond(p, l, 404, "User not found", NoRow)
       ELSE IF l.route.admin /\ ~isAdmin(l.header.userId)
       THEN Respond(p, With(l, "user", l.header.userId), 403,
                    "Admin access required", NoRow)
       ELSE Goto(p, "handler", With(l, "user", l.header.userId))
    /\ UNCHANGED <<db, payment_calls, auth, requests>>

\* the route's handler runs and returns; what it does is the handler's own model
Handler_Return(p) ==
    /\ pc[p] = "handler"
    /\ Goto(p, "idle", NoLoc)
    /\ UNCHANGED <<db, payment_calls, auth, requests>>

-----------------------------------------------------------------------------
(* requestWithdrawal *)

\* the amounts a request body may carry
WithdrawalAmounts == -1..MaxShares

\* uuidv4() for the n-th row of withdrawals: an id that no order carries
WithdrawalId(n) == 0 - n

\* async function calculateInvestmentBalance: the values it returns for any order
calculateInvestmentBalance(investmentId) ==
    [totalInvested |-> 0, currentValue |-> 0, availableBalance |-> 0,
     lockedAmount |-> 0, pendingWithdrawals |-> 0]

\* POST /api/investments/:id/withdraw: the handler up to its first await.  The
\* route's body('amount').isFloat({ min: 1 }) runs, but the handler never reads
\* validationResult(req), so every amount reaches it.
RequestWithdrawal_Begin(p) ==
    /\ Free(p)
    /\ requests' = requests + 1
    /\ \E u \in Users, id \in 1..(Len(investments) + 1), amount \in WithdrawalAmounts,
          bankAccountId \in DOMAIN BankAccounts \cup {"b9"} :
          Goto(p, "rw_fetch", [op |-> "requestWithdrawal", user |-> u, id |-> id,
                               amount |-> amount, bankAccountId |-> bankAccountId])
    /\ UNCHANGED <<db, payment_calls, auth>>

\* select the investment with its property by id and user_id, then the status
\* and withdrawal_policy checks
RequestWithdrawal_Fetch(p) ==
    /\ pc[p] = "rw_fetch"
    /\ LET l == loc[p] IN
       IF ~InvestmentOfUser(l.id, l.user)
       THEN Respond(p, l, 404, "Investment not found", NoRow)
       ELSE LET investment == investments[l.id]
                req == With(l, "investment", investment) IN
            IF investment.status # "completed"
            THEN Respond(p, req, 400, "Only completed investments can be withdrawn", NoRow)
            ELSE IF \/ investment.property_id \notin DOMAIN properties
                    \/ properties[investment.property_id].withdrawal_policy # "allowed"
            THEN Respond(p, req, 400,
                         "Withdrawals are not allowed for this investment", NoRow)
            ELSE Goto(p, "rw_balance", req)
    /\ UNCHANGED <<db, payment_calls, auth, requests>>

\* await calculateInvestmentBalance(investment.id); if (amount > availableBalance)
RequestWithdrawal_Balance(p) ==
    /\ pc[p] = "rw_balance"
    /\ LET l == loc[p]
           availableBalance == calculateInvestmentBalance(l.id).availableBalance IN
       IF l.amount > availableBalance
       THEN Respond(p, l, 400, "Insufficient balance for withdrawal", NoRow)
       ELSE Goto(p, "rw_bank", l)
    /\ UNCHANGED <<db, payment_calls, auth, requests>>

\* select * from bank_accounts where id = :bankAccountId and user_id = req.user.id
RequestWithdrawal_Bank(p) ==
    /\ pc[p] = "rw_bank"
    /\ LET l == loc[p] IN
       IF \/ l.bankAccountId \notin DOMAIN BankAccounts
          \/ BankAccounts[l.bankAccountId].user_id # l.user
       THEN Respond(p, l, 400, "Invalid bank account", NoRow)
       ELSE Goto(p, "rw_insert", l)
    /\ UNCHANGED <<db, payment_calls, auth, requests>>

\* insert into withdrawals, status 'pending'
RequestWithdrawal_Insert(p) ==
    /\ pc[p] = "rw_insert"
    /\ LET l == loc[p]
           withdrawal == [id |-> WithdrawalId(Len(withdrawals) + 1), user_id |-> l.user,
                          investment_id |-> l.id, amount |-> l.amount,
                          bank_account_id |-> l.bankAccountId, status |-> "pending"] IN
       /\ withdrawals' = Append(withdrawals, withdrawal)
       /\ Goto(p, "rw_transaction", With(l, "withdrawal", withdrawal))
    /\ UNCHANGED <<properties, investments, transactions, investment_history,
                   failed_investments, holdings, payment_calls, auth, requests>>

\* createTransaction({type: 'withdrawal', amount: -amount, ...}), then the 201 response
RequestWithdrawal_Transaction(p) ==
    /\ pc[p] = "rw_transaction"
    /\ LET l == loc[p] IN
       /\ createTransaction(l.user, "withdrawal", 0 - l.amount, "pending", l.withdrawal.id)
       /\ Respond(p, l, 201, "success", l.withdrawal)
    /\ UNCHANGED <<properties, investments, investment_history, failed_investments,
                   holdings, withdrawals, payment_calls, auth, requests>>

-----------------------------------------------------------------------------
(* login, refreshToken, logout, forgotPassword, resetPassword
   (auth.controller.js) *)

\* REFRESH_TOKEN_EXPIRES_IN ('7d'), in clock units
RefreshTokenExpiresIn == 1

\* the reset token's expiresIn ('1h'), in clock units
ResetTokenExpiresIn == 1

\* an email that names no row of users; the other emails are the users' own
UnknownEmail == "nobody"

\* a string that is no JWT
Garbage == [secret |-> "none"]

\* a body field that is absent
Missing == [secret |-> "undefined"]

\* jwt.sign(payload, secret, { expiresIn }): HS256 is deterministic, so the token
\* is a function of the payload, the secret and the issue time
sign(userId, secret, expiresIn) ==
    [secret |-> secret, userId |-> userId, iat |-> now, exp |-> now + expiresIn]

\* jwt.verify(token, secret): the decoded payload, TokenExpiredError, or another
\* error
verify(token, secret) ==
    IF token.secret # secret THEN "JsonWebTokenError"
    ELSE IF now >= token.exp THEN "TokenExpiredError"
    ELSE "decoded"

\* the rows of a table of tokens that .eq('token', token) selects
TokenRows(table, token) == {k \in DOMAIN table : table[k].token = token}

\* .single() returns a row: exactly one row is selected
Single(rows) == Cardinality(rows) = 1

\* .delete().eq('token', token) on a table kept as a sequence
DeleteToken(table, token) == SelectSeq(table, LAMBDA row : row.token # token)

\* time passes
Tick ==
    /\ now < MaxTime
    /\ now' = now + 1
    /\ out' = NoRes
    /\ UNCHANGED <<db, payment_calls, users, refresh_tokens, password_reset_tokens,
                   issued, pc, loc, requests>>

\* POST /api/auth/login: validateLogin, read by validationResult(req)
Login_Begin(p) ==
    /\ Free(p)
    /\ requests' = requests + 1
    /\ \E email \in Users \cup {UnknownEmail}, password \in Passwords \cup {""} :
          LET req == [op |-> "login", email |-> email, password |-> password] IN
          IF password = ""
          THEN Respond(p, req, 400, "Validation failed", NoRow)
          ELSE Goto(p, "lg_user", req)
    /\ UNCHANGED <<db, payment_calls, auth>>

\* select the user by email, the status check, bcrypt.compare, jwt.sign of the
\* refresh token
Login_User(p) ==
    /\ pc[p] = "lg_user"
    /\ LET l == loc[p] IN
       IF l.email \notin DOMAIN users
       THEN Respond(p, l, 401, "Invalid email or password", NoRow)
       ELSE IF users[l.email].status # "active"
       THEN Respond(p, l, 403, "Account is not active. Please contact support.", NoRow)
       ELSE IF ~Compare(l.password, users[l.email].password)
       THEN Respond(p, l, 401, "Invalid email or password", NoRow)
       ELSE Goto(p, "lg_insert",
                 With(l, "refreshToken",
                      sign(l.email, "REFRESH_TOKEN_SECRET", RefreshTokenExpiresIn)))
    /\ UNCHANGED <<db, payment_calls, auth, requests>>

\* insert into refresh_tokens, then the 200 response carrying the refresh token
Login_Insert(p) ==
    /\ pc[p] = "lg_insert"
    /\ LET l == loc[p] IN
       /\ refresh_tokens' = Append(refresh_tokens,
              [user_id |-> l.email, token |-> l.refreshToken,
               expires_at |-> now + RefreshTokenExpiresIn])
       /\ issued' = issued \cup {l.refreshToken}
       /\ Respond(p, l, 200, "success", [refreshToken |-> l.refreshToken])
    /\ UNCHANGED <<db, payment_calls, users, password_reset_tokens, now, requests>>

login(p) ==
    \/ Login_Begin(p)
    \/ Login_User(p)
    \/ Login_Insert(p)

\* POST /api/auth/refresh-token: the body check and jwt.verify
RefreshToken_Begin(p) ==
    /\ Free(p)
    /\ requests' = requests + 1
    /\ \E token \in issued \cup {Garbage, Missing} :
          LET req == [op |-> "refreshToken", refreshToken |-> token] IN
          IF token = Missing
          THEN Respond(p, req, 400, "Refresh token is required", NoRow)
          ELSE IF verify(token, "REFRESH_TOKEN_SECRET") = "TokenExpiredError"
          THEN Respond(p, req, 403, "Refresh token expired", NoRow)
          ELSE IF verify(token, "REFRESH_TOKEN_SECRET") # "decoded"
          THEN Respond(p, req, 500, "Failed to refresh token", NoRow)
          ELSE Goto(p, "rt_token", req)
    /\ UNCHANGED <<db, payment_calls, auth>>

\* select * from refresh_tokens where token = :refreshToken, then the expires_at
\* check
RefreshToken_Token(p) ==
    /\ pc[p] = "rt_token"
    /\ LET l == loc[p]
           rows == TokenRows(refresh_tokens, l.refreshToken) IN
       IF ~Single(rows)
       THEN Respond(p, l, 403, "Invalid refresh token", NoRow)
       ELSE LET tokenData == refresh_tokens[CHOOSE k \in rows : TRUE] IN
            IF tokenData.expires_at < now
            THEN Goto(p, "rt_expired", l)
            ELSE Goto(p, "rt_user", l)
    /\ UNCHANGED <<db, payment_calls, auth, requests>>

\* delete the expired token, then the 403 response
RefreshToken_Expired(p) ==
    /\ pc[p] = "rt_expired"
    /\ refresh_tokens' = DeleteToken(refresh_tokens, loc[p].refreshToken)
    /\ Respond(p, loc[p], 403, "Refresh token expired", NoRow)
    /\ UNCHANGED <<db, payment_calls, users, password_reset_tokens, issued, now, requests>>

\* select the user by decoded.userId, jwt.sign of the new access token, then the
\* 200 response
RefreshToken_User(p) ==
    /\ pc[p] = "rt_user"
    /\ LET l == loc[p] IN
       IF l.refreshToken.userId \notin DOMAIN users
       THEN Respond(p, l, 404, "User not found", NoRow)
       ELSE Respond(p, l, 200, "success",
                    [token |-> sign(l.refreshToken.userId, "JWT_SECRET", 1)])
    /\ UNCHANGED <<db, payment_calls, auth, requests>>

refreshToken(p) ==
    \/ RefreshToken_Begin(p)
    \/ RefreshToken_Token(p)
    \/ RefreshToken_Expired(p)
    \/ RefreshToken_User(p)

\* POST /api/auth/logout, past authenticateJWT: the body check
Logout_Begin(p) ==
    /\ Free(p)
    /\ requests' = requests + 1
    /\ \E u \in Users, token \in issued \cup {Missing} :
          LET req == [op |-> "logout", user |-> u, refreshToken |-> token] IN
          IF token = Missing
          THEN Respond(p, req, 400, "Refresh token is required", NoRow)
          ELSE Goto(p, "lo_delete", req)
    /\ UNCHANGED <<db, payment_calls, auth>>

\* variant: logout answers without deleting the token
Logout_Delete_KeepsToken(p) ==
    /\ pc[p] = "lo_delete"
    /\ Respond(p, loc[p], 200, "Successfully logged out", NoRow)
    /\ UNCHANGED <<db, payment_calls, auth, requests>>

\* delete from refresh_tokens where token = :refreshToken, then the 200 response
Logout_Delete(p) ==
    /\ pc[p] = "lo_delete"
    /\ refresh_tokens' = DeleteToken(refresh_tokens, loc[p].refreshToken)
    /\ Respond(p, loc[p], 200, "Successfully logged out", NoRow)
    /\ UNCHANGED <<db, payment_calls, users, password_reset_tokens, issued, now, requests>>

logout(p) ==
    \/ Logout_Begin(p)
    \/ Logout_Delete(p)

\* POST /api/auth/forgot-password: the handler up to its first await
ForgotPassword_Begin(p) ==
    /\ Free(p)
    /\ requests' = requests + 1
    /\ \E email \in Users \cup {UnknownEmail} :
          Goto(p, "fp_user", [op |-> "forgotPassword", email |-> email])
    /\ UNCHANGED <<db, payment_calls, auth>>

\* select the user by email, then jwt.sign of the reset token
ForgotPassword_User(p) ==
    /\ pc[p] = "fp_user"
    /\ LET l == loc[p] IN
       IF l.email \notin DOMAIN users
       THEN Respond(p, l, 200,
                "If your email is registered, you will receive a password reset link",
                NoRow)
       ELSE Goto(p, "fp_upsert",
                 With(l, "resetToken", sign(l.email, "JWT_SECRET", ResetTokenExpiresIn)))
    /\ UNCHANGED <<db, payment_calls, auth, requests>>

\* upsert into password_reset_tokens on conflict (user_id), console.log of the
\* token, then the 200 response
ForgotPassword_Upsert(p) ==
    /\ pc[p] = "fp_upsert"
    /\ LET l == loc[p]
           row == [user_id |-> l.email, token |-> l.resetToken,
                   expires_at |-> now + ResetTokenExpiresIn] IN
       /\ password_reset_tokens' =
             [u \in DOMAIN password_reset_tokens \cup {l.email} |->
                 IF u = l.email THEN row ELSE password_reset_tokens[u]]
       /\ issued' = issued \cup {l.resetToken}
       /\ Respond(p, l, 200,
              "If your email is registered, you will receive a password reset link",
              NoRow)
    /\ UNCHANGED <<db, payment_calls, users, refresh_tokens, now, requests>>

forgotPassword(p) ==
    \/ ForgotPassword_Begin(p)
    \/ ForgotPassword_User(p)
    \/ ForgotPassword_Upsert(p)

\* POST /api/auth/reset-password: the body check and jwt.verify
ResetPassword_Begin(p) ==
    /\ Free(p)
    /\ requests' = requests + 1
    /\ \E token \in issued \cup {Garbage, Missing}, newPassword \in Passwords :
          LET req == [op |-> "resetPassword", token |-> token,
                      newPassword |-> newPassword] IN
          IF token = Missing
          THEN Respond(p, req, 400, "Token and new password are required", NoRow)
          ELSE IF verify(token, "JWT_SECRET") # "decoded"
          THEN Respond(p, req, 400, "Invalid or expired token", NoRow)
          ELSE Goto(p, "rp_token", With(req, "userId", token.userId))
    /\ UNCHANGED <<db, payment_calls, auth>>

\* select * from password_reset_tokens where token = :token, then bcrypt.hash
ResetPassword_Token(p) ==
    /\ pc[p] = "rp_token"
    /\ LET l == loc[p] IN
       IF ~Single(TokenRows(password_reset_tokens, l.token))
       THEN Respond(p, l, 400, "Invalid or expired token", NoRow)
       ELSE Goto(p, "rp_update", With(l, "hashedPassword", Hash(l.newPassword)))
    /\ UNCHANGED <<db, payment_calls, auth, requests>>

\* update users set password = :hashedPassword where id = :userId
ResetPassword_Update(p) ==
    /\ pc[p] = "rp_update"
    /\ LET l == loc[p] IN
       users' = [u \in DOMAIN users |->
                    IF u = l.userId THEN [users[u] EXCEPT !.password = l.hashedPassword]
                    ELSE users[u]]
    /\ Goto(p, "rp_delete", loc[p])
    /\ UNCHANGED <<db, payment_calls, refresh_tokens, password_reset_tokens, issued, now,
                   requests>>

\* delete from password_reset_tokens where token = :token, then the 200 response
ResetPassword_Delete(p) ==
    /\ pc[p] = "rp_delete"
    /\ LET keep == {u \in DOMAIN password_reset_tokens :
                       password_reset_tokens[u].token # loc[p].token} IN
       password_reset_tokens' = [u \in keep |-> password_reset_tokens[u]]
    /\ Respond(p, loc[p], 200, "Password has been reset successfully", NoRow)
    /\ UNCHANGED <<db, payment_calls, users, refresh_tokens, issued, now, requests>>

resetPassword(p) ==
    \/ ResetPassword_Begin(p)
    \/ ResetPassword_Token(p)
    \/ ResetPassword_Update(p)
    \/ ResetPassword_Delete(p)

-----------------------------------------------------------------------------

Next ==
    \E p \in Procs :
        \/ createInvestment(p)
        \/ cancelInvestment(p)
        \/ updateInvestmentStatus(p)

Spec == Init /\ [][Next]_vars

\* no other request is between two of its awaits
Alone(p) == \A q \in Procs \ {p} : pc[q] = "idle"

\* the handlers run one request at a time: a request is received only while no
\* other is between two of its awaits
NextSeq ==
    \E p \in Procs :
        \/ Alone(p) /\ CreateInvestment_Begin(p)
        \/ CreateInvestment_Fetch(p)
        \/ CreateInvestment_Insert(p)
        \/ CreateInvestment_Pay(p)
        \/ CreateInvestment_Complete(p)
        \/ CreateInvestment_Shares(p)
        \/ CreateInvestment_Transaction(p)
        \/ CreateInvestment_Commit(p)
        \/ CreateInvestment_Rollback(p)
        \/ CreateInvestment_Failed(p)
        \/ Alone(p) /\ CancelInvestment_Begin(p)
        \/ CancelInvestment_Fetch(p)
        \/ CancelInvestment_Update(p)
        \/ CancelInvestment_Transaction(p)
        \/ CancelInvestment_Commit(p)
        \/ CancelInvestment_Rollback(p)
        \/ Alone(p) /\ UpdateInvestmentStatus_Begin(p)
        \/ UpdateInvestmentStatus_Fetch(p)
        \/ UpdateInvestmentStatus_Update(p)
        \/ UpdateInvestmentStatus_History(p)
        \/ UpdateInvestmentStatus_Property(p)
        \/ UpdateInvestmentStatus_Shares(p)

SpecSeq == Init /\ [][NextSeq]_vars

\* only createInvestment requests arrive, concurrently
NextCreate == \E p \in Procs : createInvestment(p)

SpecCreate == Init /\ [][NextCreate]_vars

\* purchases run concurrently with the admin's property management
NextManage ==
    \E p \in Procs :
        \/ createInvestment(p)
        \/ UpdateProperty(p)
        \/ deleteProperty(p)

SpecManage == Init /\ [][NextManage]_vars

\* requests with any Authorization header arrive at the two routers
NextRoutes ==
    \E p \in Procs :
        \/ Router_Receive(p)
        \/ AuthenticateJWT_User(p)
        \/ Handler_Return(p)

SpecRoutes == Init /\ [][NextRoutes]_vars

\* purchases and withdrawal requests, one request at a time
NextWithdraw ==
    \E p \in Procs :
        \/ Alone(p) /\ CreateInvestment_Begin(p)
        \/ CreateInvestment_Fetch(p)
        \/ CreateInvestment_Insert(p)
        \/ CreateInvestment_Pay(p)
        \/ CreateInvestment_Complete(p)
        \/ CreateInvestment_Shares(p)
        \/ CreateInvestment_Transaction(p)
        \/ CreateInvestment_Commit(p)
        \/ CreateInvestment_Rollback(p)
        \/ CreateInvestment_Failed(p)
        \/ Alone(p) /\ RequestWithdrawal_Begin(p)
        \/ RequestWithdrawal_Fetch(p)
        \/ RequestWithdrawal_Balance(p)
        \/ RequestWithdrawal_Bank(p)
        \/ RequestWithdrawal_Insert(p)
        \/ RequestWithdrawal_Transaction(p)

SpecWithdraw == Init /\ [][NextWithdraw]_vars

\* logins, token refreshes and logouts arrive concurrently while time passes
NextSession ==
    \/ Tick
    \/ \E p \in Procs :
          \/ login(p)
          \/ refreshToken(p)
          \/ logout(p)

SpecSession == Init /\ [][NextSession]_vars

\* password reset requests arrive concurrently while time passes
NextReset ==
    \/ Tick
    \/ \E p \in Procs :
          \/ forgotPassword(p)
          \/ resetPassword(p)

SpecReset == Init /\ [][NextReset]_vars

-----------------------------------------------------------------------------
(* Properties *)

\* the state table of the order state machine
TransitionTable ==
    {<<"pending", "completed">>, <<"pending", "failed">>, <<"pending", "cancelled">>,
     <<"completed", "cancelled">>, <<"failed", "pending">>}

RECURSIVE SumShares(_)
SumShares(ids) ==
    IF ids = {} THEN 0
    ELSE LET i == CHOOSE x \in ids : TRUE IN
         investments[i].shares + SumShares(ids \ {i})

\* the orders of a property that are COMPLETED: the shares users hold in it
CompletedOrders(pid) ==
    {i \in InvestmentIds :
        investments[i].property_id = pid /\ investments[i].status = "completed"}

AllIdle == \A p \in Procs : pc[p] = "idle"

\* the last step sent the response of a request of kind op
Answered(op) == out.code # 0 /\ out.req.op = op

\* slot p, suspended at label, takes its step
Steps(p, label) == pc[p] = label /\ pc'[p] # label

\* slot p answers with an error and returns, and no table changes
RejectedUnchanged(p) ==
    /\ out'.code = 400
    /\ out'.proc = p
    /\ pc'[p] = "idle"
    /\ UNCHANGED db

\* C1: no overselling under concurrent createInvestment requests: the shares of
\* the orders of a property that end COMPLETED never sum to more than the
\* available_shares the property had before the requests.
C1_NoOverselling ==
    \A pid \in PropertyIds :
        SumShares(CompletedOrders(pid)) <= InitProperties[pid].available_shares

\* C2: in every reachable state the available_shares of every property is at
\* least 0.
C2_AvailableSharesNonNegative ==
    \A pid \in PropertyIds : properties[pid].available_shares >= 0

\* C3: conservation of shares: whenever no operation is in progress, for every
\* property available_shares plus the shares of its COMPLETED orders equals
\* total_shares.
C3_SharesConserved ==
    AllIdle =>
        \A pid \in PropertyIds :
            properties[pid].available_shares + SumShares(CompletedOrders(pid))
                = properties[pid].total_shares

\* C4: every change of an order's stored status is an edge of the transition
\* table; in particular a CANCELLED order never changes status again.
C4_StatusFollowsTable ==
    [][\A i \in InvestmentIds :
          investments'[i].status # investments[i].status =>
              <<investments[i].status, investments'[i].status>> \in TransitionTable]_vars

\* C5: updateInvestmentStatus called with a (current status, requested status)
\* pair that is not in the transition table is rejected with an error and leaves
\* the order, the properties, the investment history and the transaction records
\* unchanged.
C5_InvalidTransitionRejected ==
    [][\A p \in Procs :
          ( /\ Steps(p, "us_fetch")
            /\ loc[p].id \in InvestmentIds
            /\ <<investments[loc[p].id].status, loc[p].status>> \notin TransitionTable )
          => RejectedUnchanged(p)]_vars

\* C5 witness: an admin asked to complete a cancelled order and got the 400.
C5_Witness ==
    /\ Answered("updateInvestmentStatus")
    /\ out.code = 400
    /\ out.req.investment.status = "cancelled"
    /\ out.req.status = "completed"

\* C6: a createInvestment request for s >= 1 shares on an active property with
\* available_shares a >= s and price p, whose payment succeeds and that runs
\* without interference, is answered 201 with the order COMPLETED with amount
\* s*p, the property's available_shares equal to a - s, and a purchase record
\* debiting s*p (stored as -s*p) that references the order.
C6_PurchaseCompletes ==
    ( /\ Answered("createInvestment")
      /\ "property" \in DOMAIN out.req
      /\ out.req.shares <= out.req.property.available_shares
      /\ "error" \notin DOMAIN out.req )
    => LET r == out.req
           a == r.property.available_shares
           price == r.property.price_per_share IN
       /\ out.code = 201
       /\ r.shares >= 1
       /\ investments[r.investmentId].status = "completed"
       /\ investments[r.investmentId].amount = r.shares * price
       /\ properties[r.propertyId].available_shares = a - r.shares
       /\ transactions # <<>>
       /\ LET t == transactions[Len(transactions)] IN
          /\ t.type = "investment"
          /\ t.reference_id = r.investmentId
          /\ t.amount = 0 - (r.shares * price)

\* C6 witness: scenario A scaled to 2 shares at price 2: a purchase of 1 share
\* completed with amount 2 and left 1 share available.
C6_Witness ==
    /\ Answered("createInvestment")
    /\ out.code = 201
    /\ out.req.shares = 1
    /\ out.req.property.available_shares = TotalShares
    /\ investments[out.req.investmentId].amount = PricePerShare
    /\ properties[out.req.propertyId].available_shares = TotalShares - 1

\* a request to cancel an order that was COMPLETED when the handler read it:
\* cancelInvestment by its owner, or updateInvestmentStatus to 'cancelled'
CancelOfCompleted ==
    /\ out.code # 0
    /\ \/ out.req.op = "cancelInvestment"
       \/ out.req.op = "updateInvestmentStatus" /\ out.req.status = "cancelled"
    /\ "investment" \in DOMAIN out.req
    /\ out.req.investment.status = "completed"

\* C7: cancelling a COMPLETED buy order is permitted and compensates it: the
\* order becomes CANCELLED, available_shares grows by the order's shares (back to
\* total_shares when it is the property's only order), and a reversing record
\* offsetting the purchase is appended.
C7_CancelCompletedCompensates ==
    CancelOfCompleted =>
        LET order == out.req.investment IN
        /\ out.code = 200
        /\ investments[out.req.id].status = "cancelled"
        /\ Len(investments) = 1 =>
              properties[order.property_id].available_shares
                  = properties[order.property_id].total_shares
        /\ \E k \in 1..Len(transactions) :
              /\ transactions[k].type = "refund"
              /\ transactions[k].reference_id = out.req.id
              /\ transactions[k].amount = order.amount

\* a cancelInvestment request whose order was already CANCELLED when read
CancelOfCancelled ==
    /\ Answered("cancelInvestment")
    /\ "investment" \in DOMAIN out.req
    /\ out.req.investment.status = "cancelled"

\* C8 as stated: cancelInvestment on an already CANCELLED order succeeds as a
\* no-op and returns the same CANCELLED order.
C8_CancelCancelledReturnsOrder ==
    CancelOfCancelled => (out.code = 200 /\ out.data = out.req.investment)

\* C8 amended: cancelInvestment on an already CANCELLED order is rejected with
\* the 400 error; it changes no stored state, so it makes no second refund and
\* appends no second refund record.
C8_CancelCancelledRejected ==
    [][\A p \in Procs :
          ( /\ Steps(p, "cn_fetch")
            /\ loc[p].id \in InvestmentIds
            /\ investments[loc[p].id].user_id = loc[p].user
            /\ investments[loc[p].id].status = "cancelled" )
          => RejectedUnchanged(p)]_vars

\* C8 witness: the owner of a cancelled order asked to cancel it again.
C8_Witness == CancelOfCancelled /\ out.code = 400

\* C9: when the payment step of createInvestment reports failure, the order ends
\* FAILED, the property's available_shares equals its value before the
\* submission, and a failed-attempt record of the request is appended.
C9_PaymentFailureMarksFailed ==
    ( /\ Answered("createInvestment")
      /\ "error" \in DOMAIN out.req
      /\ out.req.error = "Payment processing failed" )
    => LET r == out.req IN
       /\ investments[r.investmentId].status = "failed"
       /\ properties[r.propertyId].available_shares = r.property.available_shares
       /\ failed_investments # <<>>
       /\ failed_investments[Len(failed_investments)].error = r.error

\* C10: a createInvestment request whose shares exceed the property's
\* available_shares returns an error, creates no order record and leaves
\* available_shares and the transaction records unchanged.
C10_InsufficientSharesRejected ==
    [][\A p \in Procs :
          ( /\ Steps(p, "ci_fetch")
            /\ loc[p].propertyId \in DOMAIN properties
            /\ loc[p].shares > properties[loc[p].propertyId].available_shares )
          => RejectedUnchanged(p)]_vars

\* C10 witness: 2 shares were requested of an active property with 1 left.
C10_Witness ==
    /\ Answered("createInvestment")
    /\ out.code = 400
    /\ out.message = "Not enough shares available"
    /\ out.req.shares > properties[out.req.propertyId].available_shares
    /\ properties[out.req.propertyId].available_shares >= 1

\* the createInvestment request that slot p receives in this step
ReceivedCreate(p) == IF pc'[p] = "ci_fetch" THEN loc'[p] ELSE out'.req

\* slot p receives a createInvestment request in this step
ReceivesCreate(p) ==
    /\ pc[p] = "idle"
    /\ \/ pc'[p] = "ci_fetch"
       \/ out'.code # 0 /\ out'.proc = p /\ out'.req.op = "createInvestment"

\* C11: a createInvestment request that fails input validation (propertyId not a
\* UUID, shares below 1, paymentMethodId missing) is answered at once with the
\* validation error and writes nothing: no order, no change of available_shares,
\* no transaction record, no failed-investment record.
C11_ValidationFailureWritesNothing ==
    [][\A p \in Procs :
          ( /\ ReceivesCreate(p)
            /\ \/ ReceivedCreate(p).propertyId = MalformedProperty
               \/ ReceivedCreate(p).shares < 1
               \/ ReceivedCreate(p).paymentMethodId = "missing" )
          => /\ out'.code = 400
             /\ out'.message = "Validation failed"
             /\ pc'[p] = "idle"
             /\ UNCHANGED <<db, payment_calls>>]_vars

\* C11 witness: a request for 0 shares of an existing property, with a payment
\* method, was answered with the validation error.
C11_Witness ==
    /\ Answered("createInvestment")
    /\ out.code = 400
    /\ out.message = "Validation failed"
    /\ out.req.shares = 0
    /\ out.req.propertyId \in PropertyIds
    /\ out.req.paymentMethodId = "pm"

\* the purchase record of order i is in the journal
Journaled(i) ==
    \E k \in 1..Len(transactions) :
        transactions[k].reference_id = i /\ transactions[k].type = "investment"

\* C12: order transitions are all-or-nothing: when createInvestment has failed
\* after its order insert, the order it inserted is not visible once it has
\* returned; and whenever no operation is in progress, an order is COMPLETED
\* only together with its purchase record.
C12_TransitionsAllOrNothing ==
    /\ ( /\ Answered("createInvestment")
         /\ out.code = 500
         /\ "investmentId" \in DOMAIN out.req )
       => out.req.investmentId \notin InvestmentIds
    /\ AllIdle =>
          \A i \in InvestmentIds : investments[i].status = "completed" => Journaled(i)

\* C13: pessimistic hold: while an order of createInvestment is PENDING and its
\* processPayment call has not been made yet, the property's available_shares
\* is already the value the handler read minus the order's shares.
C13_SharesHeldBeforePayment ==
    \A p \in Procs :
        ( /\ pc[p] = "ci_pay"
          /\ investments[loc[p].investmentId].status = "pending" )
        => properties[loc[p].propertyId].available_shares
               = loc[p].property.available_shares - loc[p].shares

\* C14: processPayment and processRefund are never called between
\* rpc('begin_transaction') and the rpc('commit_transaction') or
\* rpc('rollback_transaction') that follows it.
C14_NoGatewayCallInsideTransaction ==
    [][\A p \in Procs :
          ( \/ Steps(p, "ci_pay")
            \/ Steps(p, "cn_update") /\ loc[p].investment.payment_status = "succeeded" )
          => ~loc[p].tx]_vars

\* slot p runs cancelInvestment or updateInvestmentStatus on order id, read the
\* order as PENDING and has written its new status
WroteFromPending(p, id) ==
    /\ loc[p].op \in {"cancelInvestment", "updateInvestmentStatus"}
    /\ loc[p].id = id
    /\ "updatedInvestment" \in DOMAIN loc[p]
    /\ loc[p].investment.status = "pending"

\* C15: cancelInvestment and updateInvestmentStatus requests on one order are
\* serialized: of the requests running concurrently on one PENDING order, the one
\* taking effect second has seen the status written by the first, so no two of
\* them both write a new status after reading PENDING.
C15_TransitionsSerialized ==
    \A i \in InvestmentIds :
        \A p, q \in Procs :
            (WroteFromPending(p, i) /\ WroteFromPending(q, i)) => p = q

\* the last step answered a request that moved order id into COMPLETED
MovedIntoCompleted(id) ==
    /\ out.code \in {200, 201}
    /\ \/ out.req.op = "createInvestment" /\ out.req.investmentId = id
       \/ /\ out.req.op = "updateInvestmentStatus"
          /\ out.req.id = id
          /\ out.req.status = "completed"

\* the last step answered a request that moved order id out of COMPLETED
MovedOutOfCompleted(id) ==
    /\ out.code = 200
    /\ out.req.op \in {"cancelInvestment", "updateInvestmentStatus"}
    /\ out.req.id = id
    /\ out.req.investment.status = "completed"

\* C16: every ownership-changing event is journaled: an operation that moved an
\* order into COMPLETED (and changed available_shares) has appended a purchase
\* record referencing the order, and one that moved it out of COMPLETED has
\* appended a reversing record referencing it.
C16_OwnershipChangesJournaled ==
    \A i \in InvestmentIds :
        /\ MovedIntoCompleted(i) => Journaled(i)
        /\ MovedOutOfCompleted(i) =>
              \E k \in 1..Len(transactions) :
                  transactions[k].reference_id = i /\ transactions[k].type = "refund"

\* C17: the journal is append-only: no step updates or deletes a transaction
\* record; every record stays at its position with the same fields, and later
\* records, corrections included, are added after it.
C17_JournalAppendOnly ==
    [][/\ Len(transactions') >= Len(transactions)
       /\ \A k \in 1..Len(transactions) : transactions'[k] = transactions[k]]_vars

\* C17 witness: the purchase record of an order is still in the journal after a
\* refund record for the same order was appended behind it.
C17_Witness ==
    \E j, k \in 1..Len(transactions) :
        /\ j < k
        /\ transactions[j].reference_id = transactions[k].reference_id
        /\ transactions[j].type = "investment"
        /\ transactions[k].type = "refund"

\* the fields createTransaction stores for record k
RecordFields(k) ==
    LET t == transactions[k] IN
    <<t.user_id, t.type, t.amount, t.status, t.reference_id>>

\* the hash of record k: a digest of the previous record's hash and the fields
\* of record k, kept as the pair itself
RECURSIVE ChainHash(_)
ChainHash(k) == IF k = 0 THEN <<>> ELSE <<ChainHash(k - 1), RecordFields(k)>>

\* C18: every journal record stores a hash computed from its own fields and the
\* previous record's hash, so recomputing the chain from the first record
\* reproduces every stored hash.
C18_JournalHashChained ==
    \A k \in 1..Len(transactions) :
        /\ "blockchain_hash" \in DOMAIN transactions[k]
        /\ transactions[k].blockchain_hash = ChainHash(k)

\* the holdings rows of a (user, listing) pair
HoldingsOf(u, pid) == {h \in holdings : h.user_id = u /\ h.listing_id = pid}

\* C19: every completed buy updates the buyer's holding: after a purchase was
\* answered 201 the buyer has exactly one holding for the property, holding at
\* least the order's shares, and when it is the buyer's first order there the
\* holding has share_quantity equal to the shares and average_cost_basis equal
\* to the price.
C19_CompletedBuyUpdatesHolding ==
    ( Answered("createInvestment") /\ out.code = 201 )
    => LET r == out.req
           hs == HoldingsOf(r.user, r.propertyId) IN
       /\ Cardinality(hs) = 1
       /\ \A h \in hs :
             /\ h.share_quantity >= r.shares
             /\ Len(investments) = 1 =>
                   /\ h.share_quantity = r.shares
                   /\ h.average_cost_basis = r.property.price_per_share

\* C20: processPayment is invoked at most once for any order id, whatever
\* createInvestment, cancelInvestment and updateInvestmentStatus requests follow,
\* the failed -> pending retry included.
C20_OnePaymentPerOrder ==
    \A i \in InvestmentIds \cup DOMAIN payment_calls : PaymentCalls(i) <= 1

\* C20 witness: an order whose payment was attempted once was marked failed and
\* then put back to pending by an admin, and no second attempt was made.
C20_Witness ==
    \E i \in InvestmentIds :
        /\ PaymentCalls(i) = 1
        /\ investments[i].status = "pending"
        /\ \E j, k \in 1..Len(investment_history) :
              /\ j < k
              /\ investment_history[j].investment_id = i
              /\ investment_history[j].status = "failed"
              /\ investment_history[k].investment_id = i
              /\ investment_history[k].status = "pending"

\* C21: updateProperty never changes a property's available_shares or
\* total_shares, whatever fields the request body contains.
C21_UpdatePropertyKeepsShareCounts ==
    [][\A p \in Procs :
          ( /\ pc[p] = "idle"
            /\ out'.code # 0
            /\ out'.proc = p
            /\ out'.req.op = "updateProperty" )
          => \A id \in DOMAIN properties :
                /\ id \in DOMAIN properties'
                /\ properties'[id].available_shares = properties[id].available_shares
                /\ properties'[id].total_shares = properties[id].total_shares]_vars

\* C29: a createInvestment request on a property whose status is not 'active'
\* (draft, sold, archived) is rejected with an error, creates no order record
\* and leaves available_shares and the transaction records unchanged.
C29_InactivePropertyRejected ==
    [][\A p \in Procs :
          ( /\ Steps(p, "ci_fetch")
            /\ loc[p].propertyId \in DOMAIN properties
            /\ properties[loc[p].propertyId].status # "active" )
          => RejectedUnchanged(p)]_vars

\* C29 witness: a purchase was refused on a property that an admin had archived.
C29_Witness ==
    /\ Answered("createInvestment")
    /\ out.code = 400
    /\ out.message = "Property is not available for investment"
    /\ out.req.propertyId \in DOMAIN properties
    /\ properties[out.req.propertyId].status = "archived"
    /\ investments = <<>>

\* C30: referential integrity of orders: under any interleaving of
\* createInvestment and deleteProperty, every investment record references a
\* property that still exists.
C30_OrdersReferenceExistingProperty ==
    \A i \in InvestmentIds : investments[i].property_id \in DOMAIN properties

C23_CancelPendingHoldsNothing ==
    ( /\ Answered("cancelInvestment")
      /\ out.code = 200
      /\ out.req.investment.status = "pending" )
    => /\ investments[out.req.id].status = "cancelled"
       /\ Len(investments) = 1 =>
             properties[out.req.investment.property_id].available_shares
                 = InitProperties[out.req.investment.property_id].available_shares

\* the 'refund' records of the journal that reference order i
RefundRecords(i) ==
    {k \in 1..Len(transactions) :
        transactions[k].reference_id = i /\ transactions[k].type = "refund"}

\* C25: compensation happens at most once per order, for any interleaving of
\* cancelInvestment calls on it: at most one 'refund' record referencing the
\* order is appended.
C25_OneCompensationPerOrder ==
    \A i \in InvestmentIds : Cardinality(RefundRecords(i)) <= 1

\* the orders placed on a property, whatever their status
OrdersOf(pid) == {i \in InvestmentIds : investments[i].property_id = pid}

\* C26: each order consumes inventory at most once: available_shares is never
\* lower than total_shares minus the shares of the orders placed on the
\* property.
C26_InventoryConsumedOncePerOrder ==
    \A pid \in PropertyIds :
        properties[pid].available_shares
            >= properties[pid].total_shares - SumShares(OrdersOf(pid))

\* C27: a refund is journaled only for money that was taken: a 'refund' record
\* for an order is in the journal only behind an 'investment' record for the
\* same order.
C27_RefundOnlyAfterPurchase ==
    \A k \in 1..Len(transactions) :
        transactions[k].type = "refund" =>
            \E j \in 1..(k - 1) :
                /\ transactions[j].type = "investment"
                /\ transactions[j].reference_id = transactions[k].reference_id

\* C28: every transaction a handler opens with begin_transaction is closed by
\* it: when createInvestment or cancelInvestment sends its response, the
\* commit_transaction or rollback_transaction for its begin_transaction has been
\* called.
C28_TransactionClosedBeforeResponse ==
    ( /\ out.code # 0
      /\ out.req.op \in {"createInvestment", "cancelInvestment"} )
    => ~out.req.tx

\* the request carries a valid bearer token of an existing user
Authenticated(header) ==
    /\ header.kind = "bearer"
    /\ header.verified
    /\ header.userId \in Users

\* C24: protected routes block unauthenticated users: no handler of the
\* investment routes or of the portfolio routes runs for a request that does not
\* carry a valid bearer token of an existing user.
C24_HandlersNeedAuthentication ==
    \A p \in Procs :
        pc[p] = "handler" =>
            /\ Authenticated(loc[p].header)
            /\ loc[p].user = loc[p].header.userId

\* C31: only an admin drives an order's status administratively: every
\* updateInvestmentStatus request past the middleware belongs to a caller with
\* role 'admin', and a request of any other caller is answered 403 at once with
\* the orders, the investment history and the properties unchanged.
C31_OnlyAdminDrivesStatus ==
    [][\A p \in Procs :
          /\ loc'[p].op = "updateInvestmentStatus" => Role(loc'[p].user) = "admin"
          /\ ( /\ out'.code # 0
               /\ out'.proc = p
               /\ out'.req.op = "updateInvestmentStatus"
               /\ Role(out'.req.user) # "admin" )
             => /\ out'.code = 403
                /\ pc[p] = "idle"
                /\ UNCHANGED db]_vars

\* C31 witness: an investor asked to complete a pending order and got the 403.
C31_Witness ==
    /\ Answered("updateInvestmentStatus")
    /\ out.code = 403
    /\ Role(out.req.user) = "investor"
    /\ out.req.id \in InvestmentIds
    /\ investments[out.req.id].status = "pending"
    /\ out.req.status = "completed"

\* C32: a user cancels only their own orders: no step of a cancelInvestment
\* request naming an order of another user changes a table (no order's status,
\* no transaction record) or reaches the update and refund step.
C32_CancelOnlyOwnOrders ==
    [][\A p \in Procs :
          ( /\ loc[p].op = "cancelInvestment"
            /\ pc'[p] # pc[p]
            /\ loc[p].id \in InvestmentIds
            /\ investments[loc[p].id].user_id # loc[p].user )
          => /\ UNCHANGED db
             /\ pc'[p] \notin {"cn_update", "cn_transaction", "cn_commit"}]_vars

\* C32 witness: the cancel of a pending order by a user who does not own it was
\* answered with the error, the order still pending.
C32_Witness ==
    /\ Answered("cancelInvestment")
    /\ out.code = 500
    /\ out.req.id \in InvestmentIds
    /\ investments[out.req.id].user_id # out.req.user
    /\ investments[out.req.id].status = "pending"

\* getPropertyById: stats.availableShares = property.total_shares minus the summed
\* shares of every investment of the property
StatsAvailableShares(pid) == properties[pid].total_shares - SumShares(OrdersOf(pid))

\* C34: whenever no request is in progress, the stats.availableShares returned by
\* getPropertyById equals the property's stored available_shares.
C34_StatsMatchStoredShares ==
    AllIdle =>
        \A pid \in DOMAIN properties :
            StatsAvailableShares(pid) = properties[pid].available_shares

\* C33: requestWithdrawal never creates a withdrawal row, or a 'withdrawal'
\* transaction record, whose amount is below 1 or above the investment's
\* available balance.
C33_WithdrawalAmountInRange ==
    /\ \A k \in 1..Len(withdrawals) :
          LET w == withdrawals[k] IN
          /\ w.amount >= 1
          /\ w.amount <= calculateInvestmentBalance(w.investment_id).availableBalance
    /\ \A k \in 1..Len(transactions) :
          transactions[k].type = "withdrawal" =>
              \E j \in 1..Len(withdrawals) :
                  /\ withdrawals[j].id = transactions[k].reference_id
                  /\ withdrawals[j].amount = 0 - transactions[k].amount
                  /\ withdrawals[j].amount >= 1

\* refresh_tokens holds a row for the token
StoredRefreshToken(token) == TokenRows(refresh_tokens, token) # {}

\* refresh_tokens holds a row for the token that is past its expires_at
ExpiredRefreshToken(token) ==
    \E k \in TokenRows(refresh_tokens, token) : refresh_tokens[k].expires_at < now

PasswordChanged(p) == pc[p] = "rp_delete"

\* C36: a password reset token is single-use: of the resetPassword calls that
\* present the same token, in any interleaving, at most one changes the user's
\* password.
C36_ResetTokenSingleUse ==
    \A p, q \in Procs :
        ( /\ PasswordChanged(p)
          /\ PasswordChanged(q)
          /\ loc[p].token = loc[q].token )
        => p = q

====
